---- MODULE Spec2Model ----
(***************************************************************************)
(* Model of the caption core of onetoolsbox-be:                            *)
(*   app/services/youtube_caption_service.py  (YouTubeCaptionService)      *)
(*   app/api/v1/routers/captions.py, performance.py                        *)
(*   app/services/url_shortener_service.py    (URLShortenerService)        *)
(*   app/services/voice_cloning_service.py    (VoiceCloningService)        *)
(* Strings are sequences of one-character strings, times are integer       *)
(* milliseconds.                                                           *)
(***************************************************************************)
EXTENDS Integers, Sequences, FiniteSets, TLC

VARIABLES
    kind,       \* which pure function the parser specification applies
    raw,        \* its input (payload text, parsed document or time code)
    given,      \* the numbers a time code input was written from
    parsed,     \* its result, NoResult before the call
    cache,      \* YouTubeCaptionService._cache: key -> (cached_data, timestamp)
    now,        \* time.time(), seconds
    ticks,      \* number of clock advances so far
    req,        \* the extract_captions calls in progress
    done,       \* the call that finished in the last step, NoCall otherwise
    lastOk,     \* key -> time and data of the last successful extraction since clear_cache
    url_map,    \* URLShortenerService.url_map: short code -> mapping
    storage,    \* the contents of the storage file data/url_mappings.json
    reply,      \* what the last call of the URL shortener returned
    issued,     \* long URL -> the short code its first hash-method call returned
    faults,     \* number of writes of the storage file that have failed
    tts,        \* VoiceCloningService.tts: 0 is None, n the n-th model constructed
    tasks,      \* the calls submitted to _executor that wait for a worker thread
    workers,    \* the worker threads of _executor: the call each one runs
    submitted,  \* number of clone_voice_async calls so far
    loads,      \* number of TTS model objects constructed so far
    answer      \* the result of the call that finished in the last step

vars == <<kind, raw, given, parsed, cache, now, ticks, req, done, lastOk,
          url_map, storage, reply, issued, faults,
          tts, tasks, workers, submitted, loads, answer>>

parserVars == <<kind, raw, given, parsed>>
serviceVars == <<cache, now, ticks, req, done, lastOk>>
shortenerVars == <<url_map, storage, reply, issued, faults>>
voiceVars == <<tts, tasks, workers, submitted, loads, answer>>

(***************************************************************************)
(* Python str primitives on character sequences                            *)
(***************************************************************************)

Whitespace == {" ", "\t", "\n", "\r"}

Digits == {"0", "1", "2", "3", "4", "5", "6", "7", "8", "9"}

DigitVal(c) ==
    CASE c = "0" -> 0 [] c = "1" -> 1 [] c = "2" -> 2 [] c = "3" -> 3
      [] c = "4" -> 4 [] c = "5" -> 5 [] c = "6" -> 6 [] c = "7" -> 7
      [] c = "8" -> 8 [] c = "9" -> 9

RECURSIVE LStrip(_)
LStrip(s) ==
    IF s # <<>> /\ Head(s) \in Whitespace THEN LStrip(Tail(s)) ELSE s

RECURSIVE RStrip(_)
RStrip(s) ==
    IF s # <<>> /\ s[Len(s)] \in Whitespace
    THEN RStrip(SubSeq(s, 1, Len(s) - 1))
    ELSE s

\* str.strip()
Strip(s) == RStrip(LStrip(s))

\* sub in s
Contains(s, sub) ==
    \E i \in 1..(Len(s) - Len(sub) + 1) : SubSeq(s, i, i + Len(sub) - 1) = sub

\* s.find(sub) + 1, 0 when absent
Find(s, sub) ==
    IF Contains(s, sub)
    THEN CHOOSE i \in 1..(Len(s) - Len(sub) + 1) :
            /\ SubSeq(s, i, i + Len(sub) - 1) = sub
            /\ \A j \in 1..(i - 1) : SubSeq(s, j, j + Len(sub) - 1) # sub
    ELSE 0

\* s.split(sep)
RECURSIVE Split(_, _)
Split(s, sep) ==
    LET i == Find(s, sep)
    IN  IF i = 0
        THEN <<s>>
        ELSE <<SubSeq(s, 1, i - 1)>> \o Split(SubSeq(s, i + Len(sep), Len(s)), sep)

\* length of the run of non-whitespace characters s starts with
RECURSIVE WordLen(_)
WordLen(s) ==
    IF s = <<>> \/ Head(s) \in Whitespace THEN 0 ELSE 1 + WordLen(Tail(s))

\* s.split() : the whitespace-separated words
RECURSIVE SplitWords(_)
SplitWords(s) ==
    LET t == LStrip(s)
        n == WordLen(t)
    IN  IF t = <<>>
        THEN <<>>
        ELSE <<SubSeq(t, 1, n)>> \o SplitWords(SubSeq(t, n + 1, Len(t)))

\* s.replace(a, b) for single characters
Replace(s, a, b) == [i \in 1..Len(s) |-> IF s[i] = a THEN b ELSE s[i]]

\* sep.join(parts)
RECURSIVE Join(_, _)
Join(parts, sep) ==
    IF parts = <<>> THEN <<>>
    ELSE IF Len(parts) = 1 THEN parts[1]
    ELSE parts[1] \o sep \o Join(Tail(parts), sep)

RECURSIVE DigitsValue(_)
DigitsValue(s) ==
    IF s = <<>> THEN 0 ELSE 10 * DigitsValue(SubSeq(s, 1, Len(s) - 1)) + DigitVal(s[Len(s)])

AllDigits(s) == \A i \in 1..Len(s) : s[i] \in Digits

\* the first three fraction digits as milliseconds
FractionMs(f) ==
    DigitsValue(SubSeq(f \o <<"0", "0", "0">>, 1, 3))

\* float(s) for unsigned decimal literals, in milliseconds; ok = FALSE is ValueError
Float(s) ==
    LET t  == Strip(s)
        ps == Split(t, <<".">>)
        ok == /\ Len(ps) \in {1, 2}
              /\ \A k \in 1..Len(ps) : AllDigits(ps[k])
              /\ \E k \in 1..Len(ps) : ps[k] # <<>>
    IN  IF ok
        THEN [ok |-> TRUE,
              ms |-> 1000 * DigitsValue(ps[1])
                     + (IF Len(ps) = 2 THEN FractionMs(ps[2]) ELSE 0)]
        ELSE [ok |-> FALSE, ms |-> 0]

(***************************************************************************)
(* Time Code Decoder                                                       *)
(***************************************************************************)

\* _vtt_time_to_seconds without the replace(',', '.') of line 341
VttTimeNoCommaAlias(time_str) ==
    LET parts == Split(time_str, <<":">>)
        f(k)  == Float(parts[k])
    IN  IF Len(parts) = 3
        THEN [ok |-> f(1).ok /\ f(2).ok /\ f(3).ok,
              ms |-> f(1).ms * 3600 + f(2).ms * 60 + f(3).ms]
        ELSE IF Len(parts) = 2
        THEN [ok |-> f(1).ok /\ f(2).ok,
              ms |-> f(1).ms * 60 + f(2).ms]
        ELSE f(1)

\* YouTubeCaptionService._vtt_time_to_seconds
_vtt_time_to_seconds(time_str) ==
    LET parts == Split(Replace(time_str, ",", "."), <<":">>)
        f(k)  == Float(parts[k])
    IN  IF Len(parts) = 3
        THEN [ok |-> f(1).ok /\ f(2).ok /\ f(3).ok,
              ms |-> f(1).ms * 3600 + f(2).ms * 60 + f(3).ms]
        ELSE IF Len(parts) = 2
        THEN [ok |-> f(1).ok /\ f(2).ok,
              ms |-> f(1).ms * 60 + f(2).ms]
        ELSE f(1)

(***************************************************************************)
(* Format Parsers                                                          *)
(***************************************************************************)

NoResult == [error |-> "pending", captions |-> <<>>]

Returned(captions) == [error |-> "none", captions |-> captions]

Raised(exception) == [error |-> exception, captions |-> <<>>]

Arrow == <<"-", "-", ">">>

\* VttCaption with the duration taken from the end time alone
VttCaptionNoSubtraction(start_time, end_time, text) ==
    [start_time |-> start_time,
     end_time   |-> end_time,
     duration   |-> end_time,
     text       |-> text]

\* the caption dictionary appended at lines 242-247
VttCaption(start_time, end_time, text) ==
    [start_time |-> start_time,
     end_time   |-> end_time,
     duration   |-> end_time - start_time,
     text       |-> text]

\* the inner while loop of lines 235-237: the index it stops at
RECURSIVE TextEnd(_, _)
TextEnd(lines, i) ==
    IF i <= Len(lines) /\ Strip(lines[i]) # <<>> /\ ~Contains(lines[i], Arrow)
    THEN TextEnd(lines, i + 1)
    ELSE i

\* TextLines without the strip() of line 236
TextLinesUnstripped(lines, i) ==
    [k \in 1..(TextEnd(lines, i + 1) - i - 1) |-> lines[i + k]]

\* text_lines of lines 233-237, for the cue line at index i
TextLines(lines, i) ==
    [k \in 1..(TextEnd(lines, i + 1) - i - 1) |-> Strip(lines[i + k])]

\* the index the outer loop continues at after the cue line at index i
\* (the inner loop's stop index, then i += 1 at line 249)
AfterCue(lines, i) == TextEnd(lines, i + 1) + 1

\* the outer while loop of lines 221-249, from index i on
RECURSIVE VttLoop(_, _, _)
VttLoop(lines, i, captions) ==
    IF i > Len(lines)
    THEN Returned(captions)
    ELSE
        LET line  == Strip(lines[i])
            parts == Split(line, Arrow)
        IN  IF Contains(line, Arrow) /\ Len(parts) = 2
            THEN
                LET start_time == _vtt_time_to_seconds(Strip(parts[1]))
                    words      == SplitWords(Strip(parts[2]))
                    end_time   == _vtt_time_to_seconds(words[1])
                    text       == Join(TextLines(lines, i), <<" ">>)
                IN  IF ~start_time.ok THEN Raised("ValueError")
                    ELSE IF words = <<>> THEN Raised("IndexError")
                    ELSE IF ~end_time.ok THEN Raised("ValueError")
                    ELSE VttLoop(lines, AfterCue(lines, i),
                                 IF text # <<>>
                                 THEN Append(captions,
                                             VttCaption(start_time.ms, end_time.ms, text))
                                 ELSE captions)
            ELSE VttLoop(lines, i + 1, captions)

\* YouTubeCaptionService._parse_vtt_captions
_parse_vtt_captions(vtt_content) ==
    VttLoop(Split(vtt_content, <<"\n">>), 1, <<>>)

\* dict.get(key, default) / Element.get(key, default) on an optional field
Get(field, default) == IF field.present THEN field.value ELSE default

\* the caption dictionary appended at lines 275-280 and 315-320
Caption(start_time, duration, text) ==
    [start_time |-> start_time,
     end_time   |-> start_time + duration,
     duration   |-> duration,
     text       |-> text]

\* the truth test "if text:" of lines 274 and 314
Truthy(text) == text # <<>>

\* the for loop of lines 268-280 over the <text> elements, in document order
RECURSIVE SrvLoop(_, _)
SrvLoop(elems, captions) ==
    IF elems = <<>>
    THEN Returned(captions)
    ELSE
        LET text_elem  == Head(elems)
            start_time == Float(Get(text_elem.start, <<"0">>))
            duration   == Float(Get(text_elem.dur, <<"0">>))
            text       == Get(text_elem.text, <<>>)
        IN  IF ~start_time.ok \/ ~duration.ok THEN Raised("ValueError")
            ELSE SrvLoop(Tail(elems),
                         IF Truthy(text)
                         THEN Append(captions, Caption(start_time.ms, duration.ms, text))
                         ELSE captions)

\* SRV parser that reads a malformed document as one with no <text> elements
SrvParseLenient(srv_content) == SrvLoop(srv_content.texts, <<>>)

\* YouTubeCaptionService._parse_srv_captions; srv_content is the payload as
\* ET.fromstring reads it: well formed or not, and its <text> elements
_parse_srv_captions(srv_content) ==
    IF ~srv_content.wellformed
    THEN Raised("ParseError")
    ELSE SrvLoop(srv_content.texts, <<>>)

\* SegsText that reads the first element of segs alone
SegsTextFirstOnly(segs) == IF segs = <<>> THEN <<>> ELSE Get(Head(segs), <<>>)

\* ''.join(seg.get('utf8', '') for seg in event['segs'])
RECURSIVE SegsText(_)
SegsText(segs) ==
    IF segs = <<>> THEN <<>> ELSE Get(Head(segs), <<>>) \o SegsText(Tail(segs))

\* the for loop of lines 306-320 over the events
RECURSIVE Json3Loop(_, _)
Json3Loop(events, captions) ==
    IF events = <<>>
    THEN Returned(captions)
    ELSE
        LET event      == Head(events)
            start_time == Get(event.tStartMs, 0)
            duration   == Get(event.dDurationMs, 0)
            text       == SegsText(Get(event.segs, <<>>))
        IN  Json3Loop(Tail(events),
                      IF event.segs.present /\ Truthy(text)
                      THEN Append(captions, Caption(start_time, duration, text))
                      ELSE captions)

\* YouTubeCaptionService._parse_json3_captions; json_content is the payload as
\* json.loads reads it: well formed or not, and its top-level 'events'
_parse_json3_captions(json_content) ==
    IF ~json_content.wellformed
    THEN Raised("ParseError")
    ELSE Json3Loop(Get(json_content.events, <<>>), <<>>)

(***************************************************************************)
(* Inputs of the parser specification                                      *)
(***************************************************************************)

MaxLines == 5
MaxElems == 2
MaxEvents == 2
MaxHours == 1

Present(v) == [present |-> TRUE, value |-> v]
Absent == [present |-> FALSE, value |-> <<>>]

\* "00:01.000 --> 00:03.000"
CueLineA ==
    <<"0", "0", ":", "0", "1", ".", "0", "0", "0", " ", "-", "-", ">", " ", "0", "0", ":", "0", "3", ".", "0", "0", "0">>
\* "1:00:04,500 --> 1:00:06.000 align:start"
CueLineB ==
    <<"1", ":", "0", "0", ":", "0", "4", ",", "5", "0", "0", " ", "-", "-", ">", " ", "1", ":", "0", "0", ":", "0", "6", ".", "0", "0", "0", " ", "a", "l", "i", "g", "n", ":", "s", "t", "a", "r", "t">>
\* "0x:01 --> 00:02" : a time code float() rejects
CueLineBad == <<"0", "x", ":", "0", "1", " ", "-", "-", ">", " ", "0", "0", ":", "0", "2">>
\* "00:01 -->" : no token after the arrow
CueLineNoEnd == <<"0", "0", ":", "0", "1", " ", "-", "-", ">">>
TextLineA == <<"H", "i">>
TextLineB == <<" ", "y", "o", " ">>
BlankLine == <<>>

CueLines == {CueLineA, CueLineB, CueLineBad, CueLineNoEnd}

VttLineKinds == CueLines \cup {TextLineA, TextLineB, BlankLine}

SeqsUpTo(S, n) == UNION {[1..k -> S] : k \in 0..n}

VttInputs == {Join(ls, <<"\n">>) : ls \in SeqsUpTo(VttLineKinds, MaxLines)}

SrvTexts == {Absent, Present(<<"H", "i">>), Present(<<" ">>), Present(<<"\n", " ">>)}

SrvElemKinds ==
    [start : {Absent, Present(<<"1", ".", "5">>)}, dur : {Absent, Present(<<"2">>)}, text : SrvTexts]
    \cup {[start |-> Present(<<"x">>), dur |-> Absent, text |-> Present(<<"H", "i">>)]}

SrvInputs ==
    {[wellformed |-> FALSE, texts |-> <<>>]}
    \cup {[wellformed |-> TRUE, texts |-> es] : es \in SeqsUpTo(SrvElemKinds, MaxElems)}

Json3Segs ==
    {Absent,
     Present(<<>>),
     Present(<<Present(<<"H", "e", "l", "l", "o", " ">>), Present(<<"w", "o", "r", "l", "d">>)>>),
     Present(<<Present(<<"\n">>)>>),
     Present(<<Present(<<" ">>), Absent>>)}

Json3Timings ==
    {[tStartMs |-> Absent, dDurationMs |-> Absent],
     [tStartMs |-> Present(1000), dDurationMs |-> Present(2000)],
     [tStartMs |-> Present(3500), dDurationMs |-> Absent]}

Json3EventKinds ==
    {[tStartMs |-> t.tStartMs, dDurationMs |-> t.dDurationMs, segs |-> g] :
        t \in Json3Timings, g \in Json3Segs}

Json3Inputs ==
    {[wellformed |-> FALSE, events |-> Absent],
     [wellformed |-> TRUE, events |-> Absent]}
    \cup {[wellformed |-> TRUE, events |-> Present(es)] :
            es \in SeqsUpTo(Json3EventKinds, MaxEvents)}

DigitChar(d) ==
    CASE d = 0 -> "0" [] d = 1 -> "1" [] d = 2 -> "2" [] d = 3 -> "3" [] d = 4 -> "4"
      [] d = 5 -> "5" [] d = 6 -> "6" [] d = 7 -> "7" [] d = 8 -> "8" [] d = 9 -> "9"

\* n < 100 written with two digits, or with one when it fits and pad is off
Num2(n, pad) ==
    IF pad \/ n >= 10
    THEN <<DigitChar(n \div 10), DigitChar(n % 10)>>
    ELSE <<DigitChar(n)>>

RECURSIVE TrimZeros(_)
TrimZeros(s) ==
    IF s # <<>> /\ s[Len(s)] = "0" THEN TrimZeros(SubSeq(s, 1, Len(s) - 1)) ELSE s

\* the fraction of a seconds field: separator and up to three digits
Fraction(ms, sep, trim) ==
    LET d3 == <<DigitChar(ms \div 100), DigitChar((ms \div 10) % 10), DigitChar(ms % 10)>>
        d  == IF trim THEN TrimZeros(d3) ELSE d3
    IN  IF d = <<>> THEN <<>> ELSE <<sep>> \o d

\* the time codes the decoder is given: what a writer of g.n colon-separated
\* parts puts down for g.h hours, g.m minutes, g.s seconds and g.ms milliseconds
TimeGivens ==
    [n : 1..3, h : 0..MaxHours, m : {0, 2, 59}, s : {0, 3, 59}, ms : {0, 1, 500, 999},
     sep : {".", ","}, trim : BOOLEAN, pad : BOOLEAN]

WriteTimeCode(g) ==
    LET sec(pad) == Num2(g.s, pad) \o Fraction(g.ms, g.sep, g.trim)
    IN  IF g.n = 3 THEN Num2(g.h, g.pad) \o <<":">> \o Num2(g.m, TRUE) \o <<":">> \o sec(TRUE)
        ELSE IF g.n = 2 THEN Num2(g.m, g.pad) \o <<":">> \o sec(TRUE)
        ELSE sec(g.pad)

NoGiven == [n |-> 0]

(***************************************************************************)
(* URL Shortener: the state of URLShortenerService                         *)
(***************************************************************************)

\* a dict with no key
EmptyDict == <<>>

\* the storage file holding the mappings, written whole
Saved(mappings) == [intact |-> TRUE, mappings |-> mappings]

\* by_hash: the call was shorten_url with method 'hash' and no custom code
NoReply ==
    [op |-> "", success |-> FALSE, short_code |-> <<>>, long_url |-> <<>>, method |-> "",
     clicks |-> 0, error |-> "", by_hash |-> FALSE]

\* the service after __init__ with no storage file
ShortenerIdle ==
    /\ url_map = EmptyDict
    /\ storage = Saved(EmptyDict)
    /\ reply = NoReply
    /\ issued = EmptyDict
    /\ faults = 0

(***************************************************************************)
(* Voice cloning: the state of VoiceCloningService                         *)
(***************************************************************************)

\* ThreadPoolExecutor(max_workers=2)
Workers == {1, 2}

\* a worker thread that runs no call
IdleWorker == [pc |-> "idle", speaker_found |-> FALSE, text_empty |-> FALSE]

NoAnswer == [success |-> FALSE, error |-> "none"]

\* the service after __init__ with the dependencies installed
VoiceIdle ==
    /\ tts = 0
    /\ tasks = <<>>
    /\ workers = [w \in Workers |-> IdleWorker]
    /\ submitted = 0
    /\ loads = 0
    /\ answer = NoAnswer

(***************************************************************************)
(* Extraction Orchestrator: YouTubeCaptionService.extract_captions, its    *)
(* cache and the /performance/cache/clear endpoint                         *)
(***************************************************************************)

CACHE_TTL == 3600
MAX_VIDEO_DURATION == 7200

MaxTicks == 3
MaxEncodings == 2

Reqs == {1, 2}
Urls == {"u1"}
Formats == {"txt", "srt", "json"}

\* YouTubeCaptionService._get_cache_key: the md5 of "url:output_format", one
\* fingerprint per pair
_get_cache_key(url, output_format) == <<url, output_format>>

Keys == {_get_cache_key(u, f) : u \in Urls, f \in Formats}

NoData == [video_id |-> "", video_duration |-> 0, total_captions |-> 0,
           format |-> "", captions |-> <<>>]

\* a key that is not in the _cache dictionary
Missing == [present |-> FALSE, data |-> NoData, timestamp |-> 0]

Entry(data, timestamp) == [present |-> TRUE, data |-> data, timestamp |-> timestamp]

\* _is_cache_valid with <= for <
CacheValidInclusive(timestamp, t) == t - timestamp <= CACHE_TTL

\* YouTubeCaptionService._is_cache_valid, t being time.time()
_is_cache_valid(timestamp, t) == t - timestamp < CACHE_TTL

\* the duration test with >= for >
DurationAtLeastMax(duration) == duration >= MAX_VIDEO_DURATION

\* the duration test of extract_video_info, line 56
DurationExceeded(duration) == duration > MAX_VIDEO_DURATION

KnownEncodings == {"vtt", "srv3", "srv1", "json3"}

Encodings == KnownEncodings \cup {"ttml"}

EncodingLists == SeqsUpTo(Encodings, MaxEncodings) \ {<<>>}

\* the index of the encoding the for loop of lines 149-167 downloads, 0 when it
\* finds none
FirstKnown(en_subs) ==
    IF \E i \in 1..Len(en_subs) : en_subs[i] \in KnownEncodings
    THEN CHOOSE i \in 1..Len(en_subs) :
            /\ en_subs[i] \in KnownEncodings
            /\ \A j \in 1..(i - 1) : en_subs[j] \notin KnownEncodings
    ELSE 0

\* all_subs of line 137 as the source it is taken from
AllSubsSource(subtitles, automatic_captions) ==
    IF subtitles # {} THEN "manual" ELSE "automatic"

\* all_subs of line 137: the languages of the chosen dictionary
AllSubs(subtitles, automatic_captions) ==
    IF subtitles # {} THEN subtitles ELSE automatic_captions

\* the payloads a download returns for an encoding: one the parser accepts ...
GoodPayload(ext) ==
    IF ext = "vtt" THEN Join(<<CueLineA, TextLineA>>, <<"\n">>)
    ELSE IF ext = "json3"
    THEN [wellformed |-> TRUE,
          events |-> Present(<<[tStartMs |-> Present(1000), dDurationMs |-> Present(2000),
                                segs |-> Present(<<Present(TextLineA)>>)]>>)]
    ELSE [wellformed |-> TRUE,
          texts |-> <<[start |-> Present(<<"1">>), dur |-> Present(<<"2">>),
                       text |-> Present(TextLineA)]>>]

\* ... and one it fails on
BadPayload(ext) ==
    IF ext = "vtt" THEN Join(<<CueLineBad, TextLineA>>, <<"\n">>)
    ELSE IF ext = "json3" THEN [wellformed |-> FALSE, events |-> Absent]
    ELSE [wellformed |-> FALSE, texts |-> <<>>]

\* the dispatch of lines 173-180
ParseByFormat(file_ext, subtitle_data) ==
    IF file_ext = "vtt" THEN _parse_vtt_captions(subtitle_data)
    ELSE IF file_ext \in {"srv3", "srv1"} THEN _parse_srv_captions(subtitle_data)
    ELSE IF file_ext = "json3" THEN _parse_json3_captions(subtitle_data)
    ELSE Raised("Unsupported subtitle format")

\* the exception a failed parse surfaces as (lines 284-286, 324-326; the
\* cue-block parser lets ValueError and IndexError through)
ParseFailure(file_ext, error) ==
    IF error = "ParseError"
    THEN [type |-> "Exception",
          message |-> IF file_ext = "json3" THEN "Failed to parse JSON3 captions"
                      ELSE "Failed to parse SRV captions",
          inner |-> ""]
    ELSE IF error = "Unsupported subtitle format"
    THEN [type |-> "Exception", message |-> error, inner |-> ""]
    ELSE [type |-> error, message |-> "", inner |-> ""]

\* output_data of lines 183-190
OutputData(url, duration, file_ext, parsed_captions) ==
    [video_id       |-> url,
     video_duration |-> duration,
     total_captions |-> Len(parsed_captions),
     format         |-> file_ext,
     captions       |-> parsed_captions]

Exc(message, inner) == [type |-> "Exception", message |-> message, inner |-> inner]

NoError == [type |-> "", message |-> "", inner |-> ""]

\* the HTTP error the /captions/extract endpoint turns an exception into
ExtractEndpointError(e) ==
    IF e.type = "ValueError"
    THEN [status |-> 400, error |-> "Invalid request",
          details |-> <<e.message, e.inner>>]
    ELSE [status |-> 400, error |-> "Failed to extract captions",
          details |-> <<e.message, e.inner>>]

\* a call that has not started; the other fields are those of a call in progress
\* (replaced: the write of line 195 found an entry under the call's key)
IdleReq ==
    [pc |-> "idle", url |-> "", output_format |-> "", t |-> 0, seen |-> -1,
     ops |-> {}, duration |-> 0, listed |-> FALSE, subtitles |-> {},
     automatic_captions |-> {}, source |-> "", en_subs |-> <<>>, file_ext |-> "",
     payload |-> <<>>, replaced |-> FALSE]

NoCall ==
    [outcome |-> "none", r |-> 0, call |-> IdleReq, data |-> NoData, error |-> NoError,
     cause |-> "", hit |-> FALSE]

NeverOk == [t |-> -1, data |-> NoData]

ServiceIdle ==
    /\ cache = [k \in Keys |-> Missing]
    /\ now = 0
    /\ ticks = 0
    /\ req = [r \in Reqs |-> IdleReq]
    /\ done = NoCall
    /\ lastOk = [k \in Keys |-> NeverOk]

KeyOf(c) == _get_cache_key(c.url, c.output_format)

\* the call returns data
Return(r, c, data, hit) ==
    /\ req' = [req EXCEPT ![r] = IdleReq]
    /\ done' = [outcome |-> "returned", r |-> r, call |-> c, data |-> data,
                error |-> NoError, cause |-> "", hit |-> hit]

\* the call raises e; cause is the failure that made it
Raise(r, c, e, cause) ==
    /\ req' = [req EXCEPT ![r] = IdleReq]
    /\ done' = [outcome |-> "raised", r |-> r, call |-> c, data |-> NoData,
                error |-> e, cause |-> cause, hit |-> FALSE]

Goto(r, c, pc) ==
    /\ req' = [req EXCEPT ![r] = [c EXCEPT !.pc = pc]]
    /\ done' = NoCall

\* the decision of the read path is taken now
Decided(c) == [c EXCEPT !.t = now, !.seen = lastOk[KeyOf(c)].t]

\* lines 93-97: the call starts and tests whether its key is cached
Begin(r, url, output_format) ==
    /\ req[r].pc = "idle"
    /\ LET c == Decided([IdleReq EXCEPT !.url = url, !.output_format = output_format])
       IN  Goto(r, c, IF cache[KeyOf(c)].present THEN "read" ELSE "metadata")
    /\ UNCHANGED <<cache, now, ticks, lastOk, parserVars, shortenerVars, voiceVars>>

\* lines 98-101: the entry is read and returned when still valid
ReadCache(r) ==
    /\ req[r].pc = "read"
    /\ LET c == Decided(req[r])
           e == cache[KeyOf(c)]
       IN  IF ~e.present
           THEN Raise(r, c, [type |-> "KeyError", message |-> "", inner |-> ""], "cache")
           ELSE IF _is_cache_valid(e.timestamp, now)
           THEN Return(r, c, e.data, TRUE)
           ELSE Goto(r, c, "evict")
    /\ UNCHANGED <<cache, now, ticks, lastOk, parserVars, shortenerVars, voiceVars>>

\* an eviction that leaves the expired entry to be replaced by the next write
EvictAfterExtraction(r) ==
    /\ req[r].pc = "evict"
    /\ Goto(r, req[r], "metadata")
    /\ UNCHANGED <<cache, now, ticks, lastOk, parserVars, shortenerVars, voiceVars>>

\* lines 102-104: the expired entry is removed
Evict(r) ==
    /\ req[r].pc = "evict"
    /\ IF ~cache[KeyOf(req[r])].present
       THEN /\ Raise(r, req[r], [type |-> "KeyError", message |-> "", inner |-> ""], "cache")
            /\ cache' = cache
       ELSE /\ Goto(r, req[r], "metadata")
            /\ cache' = [cache EXCEPT ![KeyOf(req[r])] = Missing]
    /\ UNCHANGED <<now, ticks, lastOk, parserVars, shortenerVars, voiceVars>>

\* line 108, extract_video_info: the library raises, or returns a duration
FetchMetadata(r, W) ==
    /\ req[r].pc = "metadata"
    /\ LET c == [req[r] EXCEPT !.ops = @ \cup {"metadata"}]
       IN  \/ Raise(r, c, Exc("Failed to extract video information", "library error"),
                    "metadata")
           \/ \E duration \in W.durations :
                IF DurationExceeded(duration)
                THEN Raise(r, [c EXCEPT !.duration = duration],
                           Exc("Failed to extract video information",
                               "Video duration exceeds maximum allowed duration"),
                           "too_long")
                ELSE Goto(r, [c EXCEPT !.duration = duration], "tracks")
    /\ UNCHANGED <<cache, now, ticks, lastOk, parserVars, shortenerVars, voiceVars>>

\* lines 129-143: the subtitle tracks are listed and the English one chosen
ListTracks(r, W) ==
    /\ req[r].pc = "tracks"
    /\ LET c == [req[r] EXCEPT !.ops = @ \cup {"tracks"}]
       IN  \/ Raise(r, c, [type |-> "DownloadError", message |-> "library error",
                           inner |-> ""], "metadata")
           \/ \E subtitles \in W.subtitles, automatic_captions \in W.automatic_captions :
                LET all_subs == AllSubs(subtitles, automatic_captions)
                    d == [c EXCEPT !.listed = TRUE, !.subtitles = subtitles,
                                   !.automatic_captions = automatic_captions]
                IN  IF all_subs = {} \/ "en" \notin all_subs
                    THEN Raise(r, d,
                               Exc("No English captions available for this video", ""),
                               "no_captions")
                    ELSE \E en_subs \in W.en_subs :
                            Goto(r, [d EXCEPT !.en_subs = en_subs,
                                              !.source = AllSubsSource(subtitles,
                                                                       automatic_captions)],
                                 "download")
    /\ UNCHANGED <<cache, now, ticks, lastOk, parserVars, shortenerVars, voiceVars>>

\* lines 146-170: the first encoding of a known format is downloaded
Download(r, W) ==
    /\ req[r].pc = "download"
    /\ LET i == FirstKnown(req[r].en_subs)
           c == [req[r] EXCEPT !.ops = @ \cup {"download"}, !.file_ext = req[r].en_subs[i]]
       IN  IF i = 0
           THEN Raise(r, req[r], Exc("Could not download subtitle data", ""), "unsupported")
           ELSE \E response \in W.responses :
                IF response \in {"failed", "status"}
                THEN Raise(r, c, Exc("Failed to download captions", response), "network")
                ELSE IF response = "empty"
                THEN Raise(r, c, Exc("Could not download subtitle data", ""), "network")
                ELSE Goto(r, [c EXCEPT !.payload = IF response = "good"
                                                   THEN GoodPayload(c.file_ext)
                                                   ELSE BadPayload(c.file_ext)],
                          "parse")
    /\ UNCHANGED <<cache, now, ticks, lastOk, parserVars, shortenerVars, voiceVars>>

\* ParseAndCache that stores the entry whether the parse failed or not
ParseAndCacheAlways(r) ==
    /\ req[r].pc = "parse"
    /\ LET c == [req[r] EXCEPT !.ops = @ \cup {"parse"},
                             !.replaced = cache[KeyOf(req[r])].present]
           p == ParseByFormat(c.file_ext, c.payload)
           output_data == OutputData(c.url, c.duration, c.file_ext, p.captions)
       IN  /\ IF p.error # "none"
              THEN Raise(r, c, ParseFailure(c.file_ext, p.error), "parse")
              ELSE Return(r, c, output_data, FALSE)
           /\ cache' = [cache EXCEPT ![KeyOf(c)] = Entry(output_data, now)]
           /\ lastOk' = IF p.error # "none" THEN lastOk
                        ELSE [lastOk EXCEPT ![KeyOf(c)] = [t |-> now, data |-> output_data]]
    /\ UNCHANGED <<now, ticks, parserVars, shortenerVars, voiceVars>>

\* ParseAndCache that keeps the entry another call has stored meanwhile
ParseAndCacheIfAbsent(r) ==
    /\ req[r].pc = "parse"
    /\ LET c == [req[r] EXCEPT !.ops = @ \cup {"parse"},
                             !.replaced = cache[KeyOf(req[r])].present]
           p == ParseByFormat(c.file_ext, c.payload)
           output_data == OutputData(c.url, c.duration, c.file_ext, p.captions)
       IN  IF p.error # "none"
           THEN /\ Raise(r, c, ParseFailure(c.file_ext, p.error), "parse")
                /\ UNCHANGED <<cache, lastOk>>
           ELSE /\ Return(r, c, output_data, FALSE)
                /\ IF cache[KeyOf(c)].present
                   THEN UNCHANGED <<cache, lastOk>>
                   ELSE /\ cache' = [cache EXCEPT ![KeyOf(c)] = Entry(output_data, now)]
                        /\ lastOk' = [lastOk EXCEPT
                                        ![KeyOf(c)] = [t |-> now, data |-> output_data]]
    /\ UNCHANGED <<now, ticks, parserVars, shortenerVars, voiceVars>>

\* lines 172-197: the payload is parsed, the result cached and returned
ParseAndCache(r) ==
    /\ req[r].pc = "parse"
    /\ LET c == [req[r] EXCEPT !.ops = @ \cup {"parse"},
                             !.replaced = cache[KeyOf(req[r])].present]
           p == ParseByFormat(c.file_ext, c.payload)
           output_data == OutputData(c.url, c.duration, c.file_ext, p.captions)
       IN  IF p.error # "none"
           THEN /\ Raise(r, c, ParseFailure(c.file_ext, p.error), "parse")
                /\ UNCHANGED <<cache, lastOk>>
           ELSE /\ Return(r, c, output_data, FALSE)
                /\ cache' = [cache EXCEPT ![KeyOf(c)] = Entry(output_data, now)]
                /\ lastOk' = [lastOk EXCEPT ![KeyOf(c)] = [t |-> now, data |-> output_data]]
    /\ UNCHANGED <<now, ticks, parserVars, shortenerVars, voiceVars>>

\* POST /performance/cache/clear
clear_cache ==
    /\ \E k \in Keys : cache[k].present
    /\ cache' = [k \in Keys |-> Missing]
    /\ lastOk' = [k \in Keys |-> NeverOk]
    /\ done' = NoCall
    /\ UNCHANGED <<now, ticks, req, parserVars, shortenerVars, voiceVars>>

\* time passes
Tick(steps) ==
    /\ ticks < MaxTicks
    /\ \E d \in steps : now' = now + d
    /\ ticks' = ticks + 1
    /\ done' = NoCall
    /\ UNCHANGED <<cache, req, lastOk, parserVars, shortenerVars, voiceVars>>

\* what the calls of a specification are given and what the services they use
\* answer: with every answer a fetch, a listing or a download can get ...
AnyVideo ==
    [formats            |-> {"txt"},
     durations          |-> {MAX_VIDEO_DURATION, MAX_VIDEO_DURATION + 1},
     subtitles          |-> SUBSET {"en", "fr"},
     automatic_captions |-> SUBSET {"en"},
     en_subs            |-> EncodingLists,
     responses          |-> {"failed", "status", "empty", "good", "bad"}]

\* ... and with one video of one encoding, requested in two output formats
OneVideo ==
    [formats            |-> {"txt", "srt"},
     durations          |-> {MAX_VIDEO_DURATION},
     subtitles          |-> {{"en"}},
     automatic_captions |-> {{}},
     en_subs            |-> {<<"vtt">>},
     responses          |-> {"failed", "good"}]

\* the steps of the call r
Step(r, W) ==
    \/ \E url \in Urls, output_format \in W.formats : Begin(r, url, output_format)
    \/ ReadCache(r)
    \/ Evict(r)
    \/ FetchMetadata(r, W)
    \/ ListTracks(r, W)
    \/ Download(r, W)
    \/ ParseAndCache(r)

Init ==
    /\ ServiceIdle /\ ShortenerIdle /\ VoiceIdle
    /\ kind = "none" /\ raw = <<>> /\ given = NoGiven /\ parsed = NoResult

\* no call is in progress
Quiet == \A r \in Reqs : req[r].pc = "idle"

\* The endpoints are async functions that call the service without awaiting,
\* so the event loop runs one handler at a time, each to its end.
ClearCacheRequest == Quiet /\ clear_cache

\* Spec follows the cache over time, second by second around the time-to-live.
Next == Step(1, OneVideo) \/ ClearCacheRequest \/ Tick({1, CACHE_TTL - 1})

Spec == Init /\ [][Next]_vars

\* SpecExtract follows the extraction pipeline over every answer of the
\* services, with whole time-to-live periods passing.
NextExtract == Step(1, AnyVideo) \/ ClearCacheRequest \/ Tick({CACHE_TTL})

SpecExtract == Init /\ [][NextExtract]_vars

(***************************************************************************)
(* The parser specification: one call of one pure function on one input    *)
(***************************************************************************)

InitParse ==
    /\ ServiceIdle /\ ShortenerIdle /\ VoiceIdle
    /\ parsed = NoResult
    /\ \/ kind = "vtt" /\ raw \in VttInputs /\ given = NoGiven
       \/ kind = "srv" /\ raw \in SrvInputs /\ given = NoGiven
       \/ kind = "json3" /\ raw \in Json3Inputs /\ given = NoGiven
       \/ kind = "time" /\ given \in TimeGivens /\ raw = WriteTimeCode(given)

DecodeTime ==
    /\ kind = "time" /\ parsed = NoResult
    /\ LET r == _vtt_time_to_seconds(raw)
       IN  parsed' = [error |-> IF r.ok THEN "none" ELSE "ValueError", ms |-> r.ms]
    /\ UNCHANGED <<kind, raw, given, serviceVars, shortenerVars, voiceVars>>

ParseVtt ==
    /\ kind = "vtt" /\ parsed = NoResult
    /\ parsed' = _parse_vtt_captions(raw)
    /\ UNCHANGED <<kind, raw, given, serviceVars, shortenerVars, voiceVars>>

ParseSrv ==
    /\ kind = "srv" /\ parsed = NoResult
    /\ parsed' = _parse_srv_captions(raw)
    /\ UNCHANGED <<kind, raw, given, serviceVars, shortenerVars, voiceVars>>

ParseJson3 ==
    /\ kind = "json3" /\ parsed = NoResult
    /\ parsed' = _parse_json3_captions(raw)
    /\ UNCHANGED <<kind, raw, given, serviceVars, shortenerVars, voiceVars>>

NextParse == DecodeTime \/ ParseVtt \/ ParseSrv \/ ParseJson3

SpecParse == InitParse /\ [][NextParse]_vars

(***************************************************************************)
(* Properties of the parsers and the time code decoder                     *)
(***************************************************************************)

ParserReturned == parsed # NoResult /\ parsed.error = "none"

ParsedBy(k) == kind = k /\ ParserReturned

IsParserKind == kind \in {"vtt", "srv", "json3"}

\* C6: every segment a parser returns has text that is non-empty after
\* trimming whitespace.
C6_TextNeverBlank ==
    (IsParserKind /\ ParserReturned) =>
        \A k \in 1..Len(parsed.captions) : Strip(parsed.captions[k].text) # <<>>

\* C7: every segment a parser returns satisfies
\* end_time = start_time + duration, in integer milliseconds.
C7_EndIsStartPlusDuration ==
    (IsParserKind /\ ParserReturned) =>
        \A k \in 1..Len(parsed.captions) :
            parsed.captions[k].end_time
                = parsed.captions[k].start_time + parsed.captions[k].duration

\* a cue-block input gave two segments of different, non-zero duration
C7_Witness ==
    /\ ParsedBy("vtt")
    /\ Len(parsed.captions) = 2
    /\ parsed.captions[1].duration = 2000
    /\ parsed.captions[2].duration = 1500
    /\ parsed.captions[2].start_time = 3604500

\* what the decoder is specified to return for the numbers a time code was
\* written from, in milliseconds
SpecifiedMs(g) ==
    (IF g.n = 3 THEN g.h * 3600000 ELSE 0)
    + (IF g.n >= 2 THEN g.m * 60000 ELSE 0)
    + g.s * 1000 + g.ms

\* C8: _vtt_time_to_seconds returns hours*3600 + minutes*60 + seconds for three
\* parts, minutes*60 + seconds for two, the bare value for one, whether the
\* decimal separator is '.' or ','.
C8_TimeCodeValue ==
    (kind = "time" /\ parsed # NoResult) =>
        /\ parsed.error = "none"
        /\ parsed.ms = SpecifiedMs(given)

\* "1:02:03,500" decoded to 3723.5 seconds
C8_Witness ==
    /\ kind = "time" /\ parsed # NoResult
    /\ raw = <<"1", ":", "0", "2", ":", "0", "3", ",", "5", "0", "0">>
    /\ parsed.ms = 3723500

InputLines == Split(raw, <<"\n">>)

IsCueLine(line) == Contains(line, Arrow)

WellFormedCues(lines) ==
    \A i \in 1..Len(lines) : lines[i] \notin {CueLineBad, CueLineNoEnd}

\* start and end, in milliseconds, written on the well-formed cue lines
CueStart(line) == IF Strip(line) = CueLineA THEN 1000 ELSE 3604500

CueEnd(line) == IF Strip(line) = CueLineA THEN 3000 ELSE 3606000

IsBlank(line) == \A k \in 1..Len(line) : line[k] \in Whitespace

\* the first index after i that holds a line satisfying Stop, Len(lines) + 1
\* when there is none
FirstAfter(lines, i, Stop(_)) ==
    CHOOSE j \in (i + 1)..(Len(lines) + 1) :
        /\ j <= Len(lines) => Stop(lines[j])
        /\ \A k \in (i + 1)..(j - 1) : ~Stop(lines[k])

\* the trimmed non-blank lines at indices from..to, in order
RECURSIVE NonBlankTrimmed(_, _, _)
NonBlankTrimmed(lines, from, to) ==
    IF from > to THEN <<>>
    ELSE (IF IsBlank(lines[from]) THEN <<>> ELSE <<Strip(lines[from])>>)
         \o NonBlankTrimmed(lines, from + 1, to)

\* the lines directly after the cue line i, up to the first blank line, the
\* next cue line or the end of input
BlockText(lines, i) ==
    LET StopLine(l) == IsBlank(l) \/ IsCueLine(l)
    IN  Join(NonBlankTrimmed(lines, i + 1, FirstAfter(lines, i, StopLine) - 1), <<" ">>)

\* all non-blank lines between the cue line i and the next cue line or the end
\* of input, blank lines in between or not
UntilNextCueText(lines, i) ==
    Join(NonBlankTrimmed(lines, i + 1, FirstAfter(lines, i, IsCueLine) - 1), <<" ">>)

RECURSIVE SegmentsFrom(_, _)
SegmentsFrom(lines, i) ==
    IF i > Len(lines) THEN <<>>
    ELSE (IF IsCueLine(lines[i]) /\ BlockText(lines, i) # <<>>
          THEN <<[start_time |-> CueStart(lines[i]),
                  end_time   |-> CueEnd(lines[i]),
                  duration   |-> CueEnd(lines[i]) - CueStart(lines[i]),
                  text       |-> BlockText(lines, i)]>>
          ELSE <<>>)
         \o SegmentsFrom(lines, i + 1)

\* C9: for a cue-block input with well-formed time codes the parser returns,
\* in input order, exactly one segment for each line containing '-->' whose
\* cue text is non-empty, whatever precedes that line.
C9_OneSegmentPerCue ==
    (kind = "vtt" /\ parsed # NoResult /\ WellFormedCues(InputLines)) =>
        parsed = Returned(SegmentsFrom(InputLines, 1))

\* the segments are those of cue lines in input order, each with the times of
\* its cue line and the text Text gives for it
SegmentsMatchCues(lines, captions, Text(_, _)) ==
    \E at \in [1..Len(captions) -> 1..Len(lines)] :
        /\ \A k \in 1..Len(captions) :
            /\ IsCueLine(lines[at[k]])
            /\ captions[k].start_time = CueStart(lines[at[k]])
            /\ captions[k].end_time = CueEnd(lines[at[k]])
            /\ captions[k].text = Text(lines, at[k])
        /\ \A k \in 1..(Len(captions) - 1) : at[k] < at[k + 1]

\* C10 as stated: the text of a cue's segment joins all trimmed non-blank
\* lines between its cue line and the next cue line or the end of input,
\* those after a blank line included.
C10_TextUntilNextCue ==
    ParsedBy("vtt") => SegmentsMatchCues(InputLines, parsed.captions, UntilNextCueText)

\* C10 amended: the text of a cue's segment joins the trimmed lines that
\* directly follow its cue line, up to the first blank line, the next cue
\* line or the end of input.
C10_TextUntilBlankLine ==
    ParsedBy("vtt") => SegmentsMatchCues(InputLines, parsed.captions, BlockText)

\* a cue followed by a text line, a blank line and another text line gave
\* one segment with the first text line alone
C10_Witness ==
    /\ ParsedBy("vtt")
    /\ raw = Join(<<CueLineA, TextLineB, BlankLine, TextLineA>>, <<"\n">>)
    /\ Len(parsed.captions) = 1
    /\ parsed.captions[1].text = <<"y", "o">>

(***************************************************************************)
(* Properties of the extraction orchestrator and its cache                 *)
(***************************************************************************)

Finished == done.outcome # "none"

\* the call that has just finished decided its read path within the
\* time-to-live of the last successful extraction for its key
WithinTtl == done.call.seen >= 0 /\ done.call.t - done.call.seen < CACHE_TTL

\* ... or at or after its end
PastTtl == done.call.seen >= 0 /\ done.call.t - done.call.seen >= CACHE_TTL

\* C1: a call for a key that was successfully extracted less than 3600 s
\* before (no clear_cache since) returns the cached CaptionSet without any
\* metadata fetch, track listing, download or parse; a call 3600 s or more
\* after it performs a fresh extraction.
C1_CacheWithinTtl ==
    Finished =>
        /\ WithinTtl =>
            /\ done.outcome = "returned" /\ done.hit
            /\ done.call.ops = {}
            /\ done.data = lastOk[KeyOf(done.call)].data
        /\ PastTtl => ~done.hit /\ "metadata" \in done.call.ops

\* a call 3599 s after the extraction was served from the cache
C1_Witness ==
    /\ Finished /\ done.hit
    /\ done.call.t - done.call.seen = CACHE_TTL - 1
    /\ done.data.total_captions = 1

\* C2: a fetched duration above MAX_VIDEO_DURATION fails the call before any
\* track is listed or downloaded and leaves no cache entry; a duration equal
\* to the ceiling is accepted.
C2_DurationCeiling ==
    Finished =>
        /\ done.call.duration > MAX_VIDEO_DURATION =>
            /\ done.outcome = "raised"
            /\ done.call.ops = {"metadata"}
            /\ ~cache[KeyOf(done.call)].present
        /\ done.call.duration = MAX_VIDEO_DURATION => "tracks" \in done.call.ops

\* a video one second over the ceiling was refused
C2_Witness ==
    /\ Finished /\ done.outcome = "raised"
    /\ done.call.duration = MAX_VIDEO_DURATION + 1
    /\ done.cause = "too_long"

\* C3: the manual English track is used when there is one, otherwise the
\* automatic English track; the call fails for want of captions only when
\* neither the manual nor the automatic captions have an 'en' track.
C3_EnglishTrackSelection ==
    (Finished /\ done.call.listed) =>
        IF "en" \in done.call.subtitles THEN done.call.source = "manual"
        ELSE IF "en" \in done.call.automatic_captions THEN done.call.source = "automatic"
        ELSE done.cause = "no_captions"

\* the place of an encoding in the preference order vtt > srv3 > srv1 > json3
Rank(ext) ==
    CASE ext = "vtt" -> 1 [] ext = "srv3" -> 2 [] ext = "srv1" -> 3 [] ext = "json3" -> 4
      [] OTHER -> 5

\* C4: the encoding downloaded is the highest-ranked one the chosen track
\* offers, in whatever order the encodings are listed.
C4_PreferredEncoding ==
    (Finished /\ "download" \in done.call.ops) =>
        \A i \in 1..Len(done.call.en_subs) :
            Rank(done.call.file_ext) <= Rank(done.call.en_subs[i])

\* the error kind a caller reads off the failure it receives
ReportedKind(response) ==
    LET message == response.details[1]
        inner   == response.details[2]
    IN  IF response.error = "Invalid request" THEN "invalid_request"
        ELSE IF message = "Failed to extract video information"
        THEN (IF inner = "Video duration exceeds maximum allowed duration"
              THEN "too_long" ELSE "metadata")
        ELSE IF message = "No English captions available for this video"
        THEN "no_captions"
        ELSE IF message \in {"Failed to download captions", "Could not download subtitle data"}
        THEN "network"
        ELSE IF message = "Unsupported subtitle format" THEN "unsupported"
        ELSE IF message \in {"Failed to parse SRV captions", "Failed to parse JSON3 captions"}
        THEN "parse"
        ELSE "metadata"

\* C5: the failure a caller receives identifies its kind: too long, metadata,
\* no captions, network/download, unsupported format and parse error are
\* told apart.
C5_ErrorKindIdentified ==
    (Finished /\ done.outcome = "raised" /\ done.cause # "cache") =>
        ReportedKind(ExtractEndpointError(done.error)) = done.cause

(***************************************************************************)
(* Failures of the parsers                                                 *)
(***************************************************************************)

IsMalformedCue(line) == line \in {CueLineBad, CueLineNoEnd}

\* the input with every cue line whose time code cannot be decoded taken out
WithoutMalformedCues(lines) ==
    [i \in 1..Len(lines) |-> IF IsMalformedCue(lines[i]) THEN BlankLine ELSE lines[i]]

\* C11: a cue line whose start or end time code cannot be decoded costs only
\* its own cue: the cue-block parser still returns, with the segments it
\* gives for the input without that cue line.
C11_MalformedCueDropped ==
    (kind = "vtt" /\ parsed # NoResult) =>
        parsed = VttLoop(WithoutMalformedCues(InputLines), 1, <<>>)

\* the call downloaded an XML or JSON payload that is not well formed
MalformedDocument(c) ==
    /\ c.file_ext \in {"srv3", "srv1", "json3"}
    /\ c.payload = BadPayload(c.file_ext)

\* C12: a malformed XML (srv1/srv3) or JSON (json3) payload makes the parser
\* fail with a parse error and no segments, the call fails with it and no
\* cache entry is created.
C12_MalformedPayloadAborts ==
    (Finished /\ "parse" \in done.call.ops /\ MalformedDocument(done.call)) =>
        /\ ParseByFormat(done.call.file_ext, done.call.payload) = Raised("ParseError")
        /\ done.outcome = "raised"
        /\ done.error.message \in {"Failed to parse SRV captions",
                                   "Failed to parse JSON3 captions"}
        /\ ~cache[KeyOf(done.call)].present

\* a malformed srv3 document failed the call at the parse stage
C12_Witness ==
    /\ Finished /\ done.outcome = "raised" /\ done.cause = "parse"
    /\ done.call.file_ext = "srv3"
    /\ done.call.payload = BadPayload("srv3")

(***************************************************************************)
(* The JSON3 parser against its specification                              *)
(***************************************************************************)

\* the utf8 fields of the first n elements of segs, concatenated in order
RECURSIVE Utf8Upto(_, _)
Utf8Upto(segs, n) ==
    IF n = 0 THEN <<>>
    ELSE Utf8Upto(segs, n - 1) \o (IF segs[n].present THEN segs[n].value ELSE <<>>)

EventText(event) == Utf8Upto(event.segs.value, Len(event.segs.value))

ContributesSegment(event) == event.segs.present /\ EventText(event) # <<>>

\* the segments specified for a list of events, times in milliseconds
SpecifiedJson3Segments(events) ==
    LET kept == SelectSeq(events, ContributesSegment)
    IN  [k \in 1..Len(kept) |->
            LET start    == IF kept[k].tStartMs.present THEN kept[k].tStartMs.value ELSE 0
                duration == IF kept[k].dDurationMs.present THEN kept[k].dDurationMs.value ELSE 0
            IN  [start_time |-> start,
                 end_time   |-> start + duration,
                 duration   |-> duration,
                 text       |-> EventText(kept[k])]]

\* C13: _parse_json3_captions returns, in event order, one segment per event
\* that has a 'segs' array and a non-empty concatenated text, with
\* start_time = tStartMs/1000, duration = dDurationMs/1000 (0 when absent),
\* end_time = start_time + duration and the text the concatenation of the
\* utf8 fields; events without 'segs' contribute nothing.
C13_Json3Segments ==
    (kind = "json3" /\ parsed # NoResult /\ raw.wellformed) =>
        parsed = Returned(SpecifiedJson3Segments(
                            IF raw.events.present THEN raw.events.value ELSE <<>>))

\* tStartMs 1000, dDurationMs 2000, segs 'Hello ' + 'world', after an event
\* without segs, gave the one segment 1.0 .. 3.0 'Hello world'
C13_Witness ==
    /\ ParsedBy("json3")
    /\ raw.events.present /\ Len(raw.events.value) = 2
    /\ ~raw.events.value[1].segs.present
    /\ Len(parsed.captions) = 1
    /\ parsed.captions[1] =
        [start_time |-> 1000, end_time |-> 3000, duration |-> 2000,
         text |-> <<"H", "e", "l", "l", "o", " ", "w", "o", "r", "l", "d">>]

(***************************************************************************)
(* Caption Cleaner: YouTubeCaptionService.clean_captions                   *)
(***************************************************************************)

\* the character of s at index k, "" past its end
CharAt(s, k) == IF k \in 1..Len(s) THEN s[k] ELSE ""

\* s has the characters of lit from index i on
LiteralAt(s, i, lit) == \A k \in 1..Len(lit) : CharAt(s, i + k - 1) = lit[k]

\* the length of the run of characters of the set S that s has from index i on
RECURSIVE Run(_, _, _)
Run(s, i, S) == IF CharAt(s, i) \in S THEN 1 + Run(s, i + 1, S) ELSE 0

\* the index of the first c in s at or after i, 0 when there is none
RECURSIVE IndexFrom(_, _, _)
IndexFrom(s, c, i) ==
    IF i > Len(s) THEN 0 ELSE IF s[i] = c THEN i ELSE IndexFrom(s, c, i + 1)

\* the length of the match of <[^>]+> at index i, 0 when it does not match
TagAt(s, i) ==
    LET j == IndexFrom(s, ">", i + 1)
    IN  IF CharAt(s, i) = "<" /\ j > i + 1 THEN j - i + 1 ELSE 0

\* the length of the match of \d+\.\d+ at index i, 0 when it does not match
DecimalAt(s, i) ==
    LET d1 == Run(s, i, Digits)
        d2 == Run(s, i + d1 + 1, Digits)
    IN  IF d1 > 0 /\ CharAt(s, i + d1) = "." /\ d2 > 0 THEN d1 + 1 + d2 ELSE 0

\* the length of the match of \[\d+\.\d+s\s*-\s*\d+\.\d+s\] at index i
TimestampAt(s, i) ==
    LET n1 == DecimalAt(s, i + 1)
        p1 == i + 1 + n1                        \* the first 's'
        p2 == p1 + 1 + Run(s, p1 + 1, Whitespace)   \* the '-'
        p3 == p2 + 1 + Run(s, p2 + 1, Whitespace)   \* the second number
        n2 == DecimalAt(s, p3)
        p4 == p3 + n2                           \* the second 's'
    IN  IF /\ CharAt(s, i) = "[" /\ n1 > 0 /\ CharAt(s, p1) = "s"
           /\ CharAt(s, p2) = "-" /\ n2 > 0 /\ CharAt(s, p4) = "s"
           /\ CharAt(s, p4 + 1) = "]"
        THEN p4 + 2 - i
        ELSE 0

\* the length of the match of <00:\d+:\d+\.\d+> at index i
InlineTimeAt(s, i) ==
    LET d1 == Run(s, i + 4, Digits)
        n2 == DecimalAt(s, i + 4 + d1 + 1)
        p  == i + 4 + d1 + 1 + n2               \* the '>'
    IN  IF /\ LiteralAt(s, i, <<"<", "0", "0", ":">>) /\ d1 > 0
           /\ CharAt(s, i + 4 + d1) = ":" /\ n2 > 0 /\ CharAt(s, p) = ">"
        THEN p + 1 - i
        ELSE 0

\* the length of the match of the literal <c> at index i
OpenCAt(s, i) == IF LiteralAt(s, i, <<"<", "c", ">">>) THEN 3 ELSE 0

\* the length of the match of the literal </c> at index i
CloseCAt(s, i) == IF LiteralAt(s, i, <<"<", "/", "c", ">">>) THEN 4 ELSE 0

\* s without the leftmost non-overlapping matches, len[i] being the length of
\* the match at index i
RECURSIVE RemoveMatches(_, _, _)
RemoveMatches(s, len, i) ==
    IF i > Len(s) THEN <<>>
    ELSE IF len[i] > 0 THEN RemoveMatches(s, len, i + len[i])
    ELSE <<s[i]>> \o RemoveMatches(s, len, i + 1)

\* lines 373-377: tags and timestamps are removed, each re.sub(pattern, '', s)
\* taking out the matches of a pattern given by its match length At
StripArtifacts(text) ==
    LET ReSubEmpty(At(_, _), s) == RemoveMatches(s, [i \in 1..Len(s) |-> At(s, i)], 1)
    IN  ReSubEmpty(CloseCAt,
            ReSubEmpty(OpenCAt,
                ReSubEmpty(InlineTimeAt,
                    ReSubEmpty(TimestampAt,
                        ReSubEmpty(TagAt, text)))))

\* re.sub(r'\s+', ' ', s)
RECURSIVE CollapseWhitespace(_)
CollapseWhitespace(s) ==
    IF s = <<>> THEN <<>>
    ELSE IF Head(s) \in Whitespace THEN <<" ">> \o CollapseWhitespace(LStrip(s))
    ELSE <<Head(s)>> \o CollapseWhitespace(Tail(s))

\* the length test with the floor one higher
SubstantialAbove11(text) == text # <<>> /\ Len(text) > 11

\* line 382: only substantial sentences are kept
Substantial(text) == text # <<>> /\ Len(text) > 10

\* the membership test that finds nothing
NeverSeen(text, seen_sentences) == FALSE

\* line 384: text in seen_sentences
Seen(text, seen_sentences) == text \in seen_sentences

\* the text of a caption after lines 368-380, <<>> for one line 369 skips
CleanText(caption) ==
    LET text == Strip(caption.text)
    IN  IF text = <<>> THEN <<>>
        ELSE Strip(CollapseWhitespace(StripArtifacts(text)))

\* the for loop of lines 367-386
RECURSIVE CleanLoop(_, _, _)
CleanLoop(captions, clean_sentences, seen_sentences) ==
    IF captions = <<>> THEN clean_sentences
    ELSE LET text == CleanText(Head(captions))
         IN  IF Substantial(text) /\ ~Seen(text, seen_sentences)
             THEN CleanLoop(Tail(captions), Append(clean_sentences, text),
                            seen_sentences \cup {text})
             ELSE CleanLoop(Tail(captions), clean_sentences, seen_sentences)

\* clean_sentences when the loop ends
CleanSentences(captions) == CleanLoop(captions, <<>>, {})

\* YouTubeCaptionService.clean_captions
clean_captions(captions) == Join(CleanSentences(captions), <<" ">>)

MaxSegments == 3

\* "hello world"
SentenceA ==
    <<"h", "e", "l", "l", "o", " ", "w", "o", "r", "l", "d">>
\* "hello worl"
SentenceShort ==
    <<"h", "e", "l", "l", "o", " ", "w", "o", "r", "l">>
\* "<c>hello</c> <00:00:01.500> world"
SentenceTagged ==
    <<"<", "c", ">", "h", "e", "l", "l", "o", "<", "/", "c", ">", " ", "<", "0", "0", ":", "0", "0", ":", "0", "1", ".", "5", "0", "0", ">", " ", "w", "o", "r", "l", "d">>
\* "<i>hello</i> <b>w</b>"
SentenceShrinks ==
    <<"<", "i", ">", "h", "e", "l", "l", "o", "<", "/", "i", ">", " ", "<", "b", ">", "w", "<", "/", "b", ">">>
\* "[1.5s - 3.0s] good morning"
SentenceStamped ==
    <<"[", "1", ".", "5", "s", " ", "-", " ", "3", ".", "0", "s", "]", " ", "g", "o", "o", "d", " ", "m", "o", "r", "n", "i", "n", "g">>
\* "hello world <"
SentenceOpen ==
    <<"h", "e", "l", "l", "o", " ", "w", "o", "r", "l", "d", " ", "<">>
\* "> and more text"
SentenceClose ==
    <<">", " ", "a", "n", "d", " ", "m", "o", "r", "e", " ", "t", "e", "x", "t">>
\* " "
SentenceBlank ==
    <<" ">>

SegmentTexts ==
    {SentenceA, SentenceShort, SentenceTagged, SentenceShrinks, SentenceStamped,
     SentenceOpen, SentenceClose, SentenceBlank}

\* a caption dictionary with the text t
Segment(t) == [start_time |-> 0, end_time |-> 0, duration |-> 0, text |-> t]

CleanInputs == {[k \in 1..Len(ts) |-> Segment(ts[k])] : ts \in SeqsUpTo(SegmentTexts, MaxSegments)}

NotCleaned == [error |-> "pending", pass |-> 0, text |-> <<>>, clean_sentences |-> <<>>,
               first |-> <<>>]

InitClean ==
    /\ ServiceIdle /\ ShortenerIdle /\ VoiceIdle
    /\ kind = "clean" /\ raw \in CleanInputs /\ given = NoGiven
    /\ parsed = NotCleaned

\* clean_captions is called on the input
CleanCaptions ==
    /\ kind = "clean" /\ parsed.pass = 0
    /\ parsed' = [error |-> "none", pass |-> 1, text |-> clean_captions(raw),
                  clean_sentences |-> CleanSentences(raw), first |-> <<>>]
    /\ UNCHANGED <<kind, raw, given, serviceVars, shortenerVars, voiceVars>>

\* its result is passed back as a single-segment input
CleanAgain ==
    /\ kind = "clean" /\ parsed.pass = 1
    /\ LET again == <<Segment(parsed.text)>>
       IN  parsed' = [error |-> "none", pass |-> 2, text |-> clean_captions(again),
                      clean_sentences |-> CleanSentences(again), first |-> parsed.text]
    /\ UNCHANGED <<kind, raw, given, serviceVars, shortenerVars, voiceVars>>

NextClean == CleanCaptions \/ CleanAgain

SpecClean == InitClean /\ [][NextClean]_vars

(***************************************************************************)
(* Properties of the caption cleaner                                       *)
(***************************************************************************)

Cleaned == kind = "clean" /\ parsed.pass = 1

\* C14: clean_captions is idempotent on its own output: a result of 11 or
\* more characters passed back as a single-segment input is returned
\* unchanged.
C14_CleanIdempotent ==
    (kind = "clean" /\ parsed.pass = 2 /\ Len(parsed.first) >= 11) =>
        parsed.text = parsed.first

\* the cleaned text of the k-th input segment
CleanedAt(k) == CleanText(raw[k])

\* k is the first segment with its cleaned text
FirstWithItsText(k) == \A j \in 1..(k - 1) : CleanedAt(j) # CleanedAt(k)

\* C15: the surviving cleaned strings hold no duplicate, are ordered by first
\* occurrence in the input (of segments with identical cleaned text only the
\* first contributes), and the output is their single-space join.
C15_DedupeFirstOccurrence ==
    Cleaned =>
        LET list == parsed.clean_sentences
        IN  /\ \A i, j \in 1..Len(list) : i # j => list[i] # list[j]
            /\ \E at \in [1..Len(list) -> 1..Len(raw)] :
                /\ \A k \in 1..Len(list) :
                    CleanedAt(at[k]) = list[k] /\ FirstWithItsText(at[k])
                /\ \A k \in 1..(Len(list) - 1) : at[k] < at[k + 1]
            /\ \A k \in 1..Len(raw) :
                Len(CleanedAt(k)) >= 11 => \E i \in 1..Len(list) : list[i] = CleanedAt(k)
            /\ parsed.text = Join(list, <<" ">>)

\* the same cleaned text twice, with another between, survived once and first
C15_Witness ==
    /\ Cleaned
    /\ Len(raw) = 3
    /\ raw[1].text = SentenceA /\ raw[2].text = SentenceStamped /\ raw[3].text = SentenceA
    /\ parsed.clean_sentences = <<SentenceA, <<"g", "o", "o", "d", " ", "m", "o", "r", "n", "i", "n", "g">>>>

\* the steps in their order: artifacts stripped, then whitespace collapsed
StrippedThenCollapsed(text) == Strip(CollapseWhitespace(StripArtifacts(Strip(text))))

\* C16: a segment contributes to the output if and only if its text after
\* artifact stripping and then whitespace collapse has at least 11
\* characters and that cleaned text was not seen before; the output joins
\* the contributing cleaned texts in input order.
C16_StepOrder ==
    Cleaned =>
        LET text(k)        == StrippedThenCollapsed(raw[k].text)
            Contributes(k) == /\ Len(text(k)) >= 11
                              /\ \A j \in 1..(k - 1) : text(j) # text(k)
            kept           == SelectSeq([k \in 1..Len(raw) |-> k], Contributes)
        IN  /\ parsed.clean_sentences = [i \in 1..Len(kept) |-> text(kept[i])]
            /\ parsed.text = Join(parsed.clean_sentences, <<" ">>)

\* a tagged text and its plain duplicate, then a text that shrinks to 7
\* characters: the output is the 11 characters of the first alone
C16_Witness ==
    /\ Cleaned
    /\ Len(raw) = 3
    /\ raw[1].text = SentenceTagged /\ raw[2].text = SentenceA
    /\ raw[3].text = SentenceShrinks
    /\ parsed.text = SentenceA

(***************************************************************************)
(* Request validation of POST /api/v1/captions/extract                     *)
(***************************************************************************)

\* valid_domains of CaptionRequest.validate_youtube_url
valid_domains ==
    {<<"y", "o", "u", "t", "u", "b", "e", ".", "c", "o", "m">>,
     <<"y", "o", "u", "t", "u", ".", "b", "e">>,
     <<"w", "w", "w", ".", "y", "o", "u", "t", "u", "b", "e", ".", "c", "o", "m">>,
     <<"m", ".", "y", "o", "u", "t", "u", "b", "e", ".", "c", "o", "m">>}

\* the validator of line 34: any(domain in url_str for domain in valid_domains)
validate_youtube_url(url_str) == \E domain \in valid_domains : Contains(url_str, domain)

\* the part of a URL between "://" and the next "/" or "?"
HostOf(url) ==
    LET i == Find(url, <<":", "/", "/">>)
    IN  IF i = 0 THEN <<>>
        ELSE Split(Split(SubSeq(url, i + 3, Len(url)), <<"/">>)[1], <<"?">>)[1]

\* the HttpUrl type of youtube_url: an http or https URL with a host
IsHttpUrl(url) ==
    /\ \/ LiteralAt(url, 1, <<"h", "t", "t", "p", ":", "/", "/">>)
       \/ LiteralAt(url, 1, <<"h", "t", "t", "p", "s", ":", "/", "/">>)
    /\ HostOf(url) # <<>>

NoResponse == [validated |-> FALSE, status |-> 0, error |-> "", format |-> ""]

\* validation_exception_handler
ValidationErrorResponse ==
    [validated |-> TRUE, status |-> 422, error |-> "Validation error", format |-> ""]

\* the CaptionRequest the endpoint function is called with
Accepted(format) == [validated |-> TRUE, status |-> 0, error |-> "", format |-> format]

\* the CaptionRequest model applied to a JSON body
CaptionRequest(body) ==
    IF ~body.youtube_url.present THEN ValidationErrorResponse
    ELSE IF ~IsHttpUrl(body.youtube_url.value) THEN ValidationErrorResponse
    ELSE IF ~validate_youtube_url(body.youtube_url.value) THEN ValidationErrorResponse
    ELSE IF body.format.present /\ body.format.value \notin Formats
    THEN ValidationErrorResponse
    ELSE Accepted(IF body.format.present THEN body.format.value ELSE "txt")


\* the URLs of the request bodies: four with a host of YouTube, two with
\* another host and a text that names YouTube, one with neither, one that is no URL
RequestUrls ==
    {<<"h", "t", "t", "p", "s", ":", "/", "/", "w", "w", "w", ".", "y", "o", "u", "t", "u", "b", "e", ".", "c", "o", "m", "/", "w", "a", "t", "c", "h", "?", "v", "=", "a">>,
     <<"h", "t", "t", "p", "s", ":", "/", "/", "y", "o", "u", "t", "u", ".", "b", "e", "/", "a">>,
     <<"h", "t", "t", "p", ":", "/", "/", "m", ".", "y", "o", "u", "t", "u", "b", "e", ".", "c", "o", "m", "/", "a">>,
     <<"h", "t", "t", "p", "s", ":", "/", "/", "y", "o", "u", "t", "u", "b", "e", ".", "c", "o", "m", "/", "a">>,
     <<"h", "t", "t", "p", "s", ":", "/", "/", "i", "n", "v", "a", "l", "i", "d", "-", "u", "r", "l", ".", "c", "o", "m">>,
     <<"h", "t", "t", "p", "s", ":", "/", "/", "n", "o", "t", "y", "o", "u", "t", "u", "b", "e", ".", "c", "o", "m", "/", "a">>,
     <<"h", "t", "t", "p", "s", ":", "/", "/", "e", "x", "a", "m", "p", "l", "e", ".", "c", "o", "m", "/", "?", "q", "=", "y", "o", "u", "t", "u", ".", "b", "e">>,
     <<"y", "o", "u", "t", "u", "b", "e", ".", "c", "o", "m">>}

RequestBodies ==
    [youtube_url : {[present |-> FALSE, value |-> <<>>]} \cup {Present(u) : u \in RequestUrls},
     format      : {[present |-> FALSE, value |-> ""]}
                   \cup {Present(f) : f \in Formats \cup {"invalid"}}]

InitApi ==
    /\ ServiceIdle /\ ShortenerIdle /\ VoiceIdle
    /\ kind = "request" /\ raw \in RequestBodies /\ given = NoGiven
    /\ parsed = NoResponse

\* FastAPI builds the CaptionRequest from the body before the endpoint runs
ValidateRequest ==
    /\ kind = "request" /\ parsed = NoResponse
    /\ parsed' = CaptionRequest(raw)
    /\ UNCHANGED <<kind, raw, given, serviceVars, shortenerVars, voiceVars>>

\* lines 42-45 of the endpoint: extract_captions is called with the URL and
\* the format of the request (url stands for str(request.youtube_url))
CallService ==
    /\ kind = "request" /\ parsed.validated /\ parsed.status = 0
    /\ \E url \in Urls : Begin(1, url, parsed.format)

\* the steps of the call once it has begun
Proceed(r, W) ==
    \/ ReadCache(r)
    \/ Evict(r)
    \/ FetchMetadata(r, W)
    \/ ListTracks(r, W)
    \/ Download(r, W)
    \/ ParseAndCache(r)

\* SpecApi follows one request body from validation into the service; an
\* accepted body may be posted again.
NextApi == ValidateRequest \/ CallService \/ Proceed(1, OneVideo) \/ Tick({CACHE_TTL})

SpecApi == InitApi /\ [][NextApi]_vars

\* the host of the URL is one of YouTube's
IsYouTubeHost(url) == HostOf(url) \in valid_domains

\* the body is one the claim says is refused
MustBeRefused(body) ==
    \/ ~body.youtube_url.present
    \/ ~IsYouTubeHost(body.youtube_url.value)
    \/ body.format.present /\ body.format.value \notin {"txt", "srt", "json"}

\* extract_captions was never invoked: no call in progress or finished, no entry
ServiceUntouched ==
    /\ Quiet /\ done = NoCall
    /\ \A k \in Keys : ~cache[k].present

\* C17: a body whose youtube_url is missing or has a host other than
\* youtube.com, www.youtube.com, m.youtube.com, youtu.be, or whose format is
\* not txt, srt or json, is answered 422 by validation and extract_captions
\* is never invoked for it.
C17_InvalidRequestRejected ==
    (kind = "request" /\ MustBeRefused(raw)) =>
        /\ parsed.validated => parsed.status = 422
        /\ ServiceUntouched

(***************************************************************************)
(* Failures of the extraction and the cache                                *)
(***************************************************************************)

\* C19: a cache entry is created only by a successful extraction: a step
\* that puts an entry into the cache is the return of a call that completed
\* parsing, for that call's key and with its data, and the step in which a
\* call fails writes no entry.
C19_EntryOnlyBySuccess ==
    [][/\ \A k \in Keys :
            (cache'[k].present /\ cache'[k] # cache[k]) =>
                /\ done'.outcome = "returned" /\ ~done'.hit
                /\ "parse" \in done'.call.ops
                /\ KeyOf(done'.call) = k
                /\ cache'[k] = Entry(done'.data, now)
       /\ done'.outcome = "raised" =>
            \A k \in Keys : cache'[k].present => cache'[k] = cache[k]]_vars

\* a call that found its entry expired, evicted it and then failed at the
\* parse stage left no entry for its key
C19_Witness ==
    /\ Finished /\ done.outcome = "raised" /\ done.cause = "parse"
    /\ done.call.seen >= 0
    /\ ~cache[KeyOf(done.call)].present

\* the messages of a failed download
DownloadFailureMessages ==
    {"Failed to download captions", "Could not download subtitle data"}

\* C20: when no encoding of the selected English track is one of vtt, srv3,
\* srv1, json3 the call fails with the unsupported-format error, which is
\* not the failure of a download, and no parser runs.
C20_UnsupportedFormatError ==
    (/\ Finished /\ done.call.source # ""
     /\ \A i \in 1..Len(done.call.en_subs) : done.call.en_subs[i] \notin KnownEncodings) =>
        /\ done.outcome = "raised"
        /\ done.error.message = "Unsupported subtitle format"
        /\ done.error.message \notin DownloadFailureMessages
        /\ "parse" \notin done.call.ops

(***************************************************************************)
(* URL Shortener: URLShortenerService.shorten_url, expand_url,             *)
(* delete_mapping                                                          *)
(***************************************************************************)

MaxClicks == 1
MaxFaults == 1

\* "http://a"
UrlA == <<"h", "t", "t", "p", ":", "/", "/", "a">>
\* "https://b"
UrlB == <<"h", "t", "t", "p", "s", ":", "/", "/", "b">>

\* the long URLs of the requests; "ftp://c" is not one validate_url accepts
LongUrls == {UrlA, UrlB, <<"f", "t", "p", ":", "/", "/", "c">>}

\* generate_short_code_hash: the first six hex digits of the md5 of the URL,
\* "c0ffee" for UrlA and "0ddba1" for the others
generate_short_code_hash(long_url) ==
    IF long_url = UrlA THEN <<"c", "0", "f", "f", "e", "e">>
    ELSE <<"0", "d", "d", "b", "a", "1">>

\* the codes generate_short_code_random draws: "c0ffee", "r4nd0m"
RandomCodes == {<<"c", "0", "f", "f", "e", "e">>, <<"r", "4", "n", "d", "0", "m">>}

\* the custom codes of the requests: "abc", "ab" and one of 21 characters;
\* <<>> is none
CustomCodes == {<<"a", "b", "c">>, <<"a", "b">>, [i \in 1..21 |-> "x"]}

\* the short codes expand_url and delete_mapping are asked for
ShortCodes == RandomCodes \cup CustomCodes \cup {generate_short_code_hash(u) : u \in LongUrls}

Methods == {"hash", "random"}

\* validate_url
validate_url(url) ==
    \/ LiteralAt(url, 1, <<"h", "t", "t", "p", ":", "/", "/">>)
    \/ LiteralAt(url, 1, <<"h", "t", "t", "p", "s", ":", "/", "/">>)

\* d[key] = value
Put(d, key, value) == [k \in DOMAIN d \cup {key} |-> IF k = key THEN value ELSE d[k]]

\* del d[key]
Del(d, key) == [k \in DOMAIN d \ {key} |-> d[k]]

\* what save_mappings can leave of the file when it raises: the file as it
\* was (open failed) or a file cut short (the write failed)
SaveFailures(file) == {file, [intact |-> FALSE, mappings |-> EmptyDict]}

\* save_mappings: the file is rewritten with the map, or the write raises
save_mappings(saved, raised) ==
    \/ /\ storage' = Saved(url_map')
       /\ faults' = faults
       /\ saved
    \/ /\ faults < MaxFaults
       /\ storage' \in SaveFailures(storage)
       /\ faults' = faults + 1
       /\ raised

\* a result with "success": False
Failure(op, error) == [NoReply EXCEPT !.op = op, !.error = error]

\* a result with "success": True
Success(op, short_code, long_url, method, clicks) ==
    [NoReply EXCEPT !.op = op, !.success = TRUE, !.short_code = short_code,
                    !.long_url = long_url, !.method = method, !.clicks = clicks]

\* the first code a hash-method call without custom code returned for a URL,
\* kept for the watched URLs
Issue(r, watched) ==
    IF /\ r.op = "shorten_url" /\ r.success /\ r.by_hash
       /\ r.long_url \in watched /\ r.long_url \notin DOMAIN issued
    THEN Put(issued, r.long_url, r.short_code)
    ELSE issued

\* a lookup that never finds the URL
ExistingCodesNone(long_url) == {}

\* lines 171-173: the codes the URL is stored under
ExistingCodes(long_url) == {code \in DOMAIN url_map : url_map[code].url = long_url}

\* a hash method that takes no notice of the code being in use
CollisionIgnored(short_code, long_url) == FALSE

\* lines 202-206: the hash code is the key of another URL
HashCollision(short_code, long_url) ==
    short_code \in DOMAIN url_map /\ url_map[short_code].url # long_url

\* a length check that forgets the lower limit
CustomCodeAtMost20(custom_code) == Len(custom_code) > 20

\* len(custom_code) < 3 or len(custom_code) > 20
CustomCodeOutOfRange(custom_code) == Len(custom_code) < 3 \/ Len(custom_code) > 20

\* URLShortenerService.shorten_url; custom_code <<>> is None (or '')
shorten_url(long_url, method, custom_code) ==
    LET by_hash  == method = "hash" /\ custom_code = <<>>
        existing == ExistingCodes(long_url)
        stored   == IF custom_code # <<>> THEN "custom" ELSE method
        Reply(r) == reply' = [r EXCEPT !.by_hash = by_hash]
        Fail(error) ==
            /\ Reply(Failure("shorten_url", error))
            /\ UNCHANGED <<url_map, storage, faults>>
        \* lines 213-232
        Store(short_code) ==
            /\ url_map' = Put(url_map, short_code,
                              [url |-> long_url, method |-> stored, clicks |-> 0])
            /\ save_mappings(Reply(Success("shorten_url", short_code, long_url, stored, 0)),
                             Reply(Failure("shorten_url", "Failed to shorten URL")))
        \* generate_short_code_random, then the store
        StoreRandom ==
            \/ \E short_code \in RandomCodes \ DOMAIN url_map : Store(short_code)
            \/ /\ RandomCodes \cap DOMAIN url_map # {}
               /\ Fail("Failed to shorten URL")
    IN  /\ IF ~validate_url(long_url)
           THEN Fail("Invalid URL format")
           ELSE IF existing # {}
           THEN /\ \E code \in existing :
                     Reply(Success("shorten_url", code, long_url, "existing", 0))
                /\ UNCHANGED <<url_map, storage, faults>>
           ELSE IF custom_code # <<>>
           THEN IF custom_code \in DOMAIN url_map
                THEN Fail("Custom code already exists")
                ELSE IF CustomCodeOutOfRange(custom_code)
                THEN Fail("Custom code must be between 3 and 20 characters")
                ELSE Store(custom_code)
           ELSE IF method = "hash"
                   /\ ~HashCollision(generate_short_code_hash(long_url), long_url)
           THEN Store(generate_short_code_hash(long_url))
           ELSE StoreRandom
        /\ UNCHANGED <<parserVars, serviceVars, voiceVars>>

\* URLShortenerService.expand_url
expand_url(short_code) ==
    /\ IF short_code \in DOMAIN url_map
       THEN LET data   == url_map[short_code]
                clicks == data.clicks
            IN  /\ clicks < MaxClicks
                /\ url_map' = Put(url_map, short_code, [data EXCEPT !.clicks = clicks + 1])
                /\ save_mappings(reply' = Success("expand_url", short_code, data.url, "",
                                                  clicks + 1),
                                 reply' = Failure("expand_url", "Failed to expand URL"))
       ELSE /\ reply' = Failure("expand_url", "Short code not found")
            /\ UNCHANGED <<url_map, storage, faults>>
    /\ UNCHANGED <<issued, parserVars, serviceVars, voiceVars>>

\* URLShortenerService.delete_mapping
delete_mapping(short_code) ==
    /\ IF short_code \in DOMAIN url_map
       THEN /\ url_map' = Del(url_map, short_code)
            /\ save_mappings(reply' = Success("delete_mapping", short_code, <<>>, "", 0),
                             reply' = Failure("delete_mapping", "Failed to delete mapping"))
       ELSE /\ reply' = Failure("delete_mapping", "Short code not found")
            /\ UNCHANGED <<url_map, storage, faults>>
    /\ UNCHANGED <<issued, parserVars, serviceVars, voiceVars>>

\* the loop of get_stats, lines 370-373, over the codes still to visit
RECURSIVE TotalClicks(_, _)
TotalClicks(mappings, codes) ==
    IF codes = {} THEN 0
    ELSE LET code == CHOOSE c \in codes : TRUE
         IN  mappings[code].clicks + TotalClicks(mappings, codes \ {code})

\* URLShortenerService.get_stats
get_stats ==
    /\ reply' = [NoReply EXCEPT !.op = "get_stats", !.success = TRUE,
                                !.clicks = TotalClicks(url_map, DOMAIN url_map)]
    /\ UNCHANGED <<url_map, storage, faults, issued, parserVars, serviceVars, voiceVars>>

InitShorten ==
    /\ ServiceIdle /\ ShortenerIdle /\ VoiceIdle
    /\ kind = "none" /\ raw = <<>> /\ given = NoGiven /\ parsed = NoResult

\* POST /url-shortener/shorten
ShortenUrlRequest(watched) ==
    /\ \E long_url \in LongUrls, method \in Methods, custom_code \in CustomCodes \cup {<<>>} :
         shorten_url(long_url, method, custom_code)
    /\ issued' = Issue(reply', watched)

\* GET /url-shortener/stats
GetStatsRequest == get_stats

\* GET /url-shortener/expand/{short_code}
ExpandUrlRequest == \E short_code \in ShortCodes : expand_url(short_code)

\* DELETE /url-shortener/mappings/{short_code}
DeleteMappingRequest == \E short_code \in ShortCodes : delete_mapping(short_code)

\* SpecShorten follows the mappings, their click counters and the storage
\* file over every sequence of calls.
NextShorten ==
    ShortenUrlRequest({}) \/ ExpandUrlRequest \/ DeleteMappingRequest \/ GetStatsRequest

SpecShorten == InitShorten /\ [][NextShorten]_vars

\* SpecShortenHash follows the codes issued over every sequence of
\* shorten_url and delete_mapping calls.
NextShortenHash == ShortenUrlRequest(LongUrls) \/ DeleteMappingRequest

SpecShortenHash == InitShorten /\ [][NextShortenHash]_vars

\* C18: with the hash method the same URL always gets the same short code:
\* every successful shorten_url(long_url, method = 'hash') without custom
\* code returns the code the first such call returned for that long_url.
C18_HashCodeStable ==
    (reply.op = "shorten_url" /\ reply.success /\ reply.by_hash) =>
        reply.short_code = issued[reply.long_url]

----------------------------------------------------------------------------
(* Properties of the URL shortener                                        *)
----------------------------------------------------------------------------

\* C21: the URL map file is rewritten wholesale on every mutation: a call
\* that changes the in-memory url_map (a mapping created, a click counted, a
\* mapping removed) leaves the storage file holding exactly url_map, and a
\* call that does not change url_map does not write the file.
C21_FileHoldsMap ==
    [][/\ url_map' # url_map => storage' = Saved(url_map')
       /\ url_map' = url_map => storage' = storage]_vars

\* C30: a shorten_url or delete_mapping call that returns success = false
\* leaves the in-memory url_map unchanged, also when save_mappings raised
\* while writing the storage file.
C30_FailureLeavesMap ==
    [][(reply'.op \in {"shorten_url", "delete_mapping"} /\ ~reply'.success)
           => url_map' = url_map]_vars

\* C22 as stated: whenever shorten_url is called with a custom_code and
\* returns success, the returned short_code is that custom_code and its
\* length is between 3 and 20; a custom_code that is already a key, or
\* whose length is outside 3..20, makes the call fail.
C22_CustomCodeReturned ==
    [][\A long_url \in LongUrls, method \in Methods, custom_code \in CustomCodes :
         shorten_url(long_url, method, custom_code) =>
           /\ reply'.success =>
                reply'.short_code = custom_code /\ Len(custom_code) \in 3..20
           /\ (custom_code \in DOMAIN url_map \/ Len(custom_code) \notin 3..20) =>
                ~reply'.success]_vars

\* the long URL is stored under some code
AlreadyShortened(long_url) ==
    \E code \in DOMAIN url_map : url_map[code].url = long_url

\* C22, amended: whenever shorten_url is called with a (non-empty)
\* custom_code for a long URL that is not yet stored and returns success,
\* the returned short_code is that custom_code and its length is between 3
\* and 20, and for such a URL a custom_code that is already a key, or whose
\* length is outside 3..20, makes the call fail; for a long URL that is
\* already stored the call returns the code it is stored under, with method
\* 'existing', whatever the custom_code.
C22_CustomCodeForNewUrl ==
    [][\A long_url \in LongUrls, method \in Methods, custom_code \in CustomCodes :
         shorten_url(long_url, method, custom_code) =>
           IF AlreadyShortened(long_url)
           THEN /\ reply'.success /\ reply'.method = "existing"
                /\ reply'.short_code \in DOMAIN url_map
                /\ url_map[reply'.short_code].url = long_url
           ELSE /\ reply'.success =>
                     reply'.short_code = custom_code /\ Len(custom_code) \in 3..20
                /\ (custom_code \in DOMAIN url_map \/ Len(custom_code) \notin 3..20) =>
                     ~reply'.success]_vars

\* a call with a custom code has stored its URL under it
C22_Witness ==
    /\ reply.op = "shorten_url" /\ reply.success /\ reply.method = "custom"
    /\ reply.short_code \in CustomCodes
    /\ reply.short_code \in DOMAIN url_map

----------------------------------------------------------------------------
(* The life of a cache entry                                              *)
----------------------------------------------------------------------------

\* the call r is at line 104, about to delete the entry of key k
Evicting(r, k) == req[r].pc = "evict" /\ KeyOf(req[r]) = k

\* C23: eviction is lazy and a stale entry is never served: a call returns
\* a cached entry only when its age is below 3600 s; an entry leaves the
\* cache only in the step of a call for its own key that read it and found
\* it stale, or when clear_cache runs, never when time passes; and since the
\* entry is deleted before the re-extraction starts, it is absent when that
\* re-extraction fails.
C23_LazyEviction ==
    [][/\ (done'.outcome = "returned" /\ done'.hit) =>
            LET e == cache[KeyOf(done'.call)]
            IN  e.present /\ done'.data = e.data /\ now - e.timestamp < CACHE_TTL
       /\ \A k \in Keys :
            (cache[k].present /\ ~cache'[k].present) =>
                /\ now' = now
                /\ \/ /\ \A j \in Keys : ~cache'[j].present
                      /\ req' = req
                   \/ \E r \in Reqs :
                        /\ Evicting(r, k) /\ req'[r].pc = "metadata"
                        /\ now - cache[k].timestamp >= CACHE_TTL
                        /\ \A j \in Keys \ {k} : cache'[j] = cache[j]
       /\ now' # now => cache' = cache
       /\ (done'.outcome = "raised" /\ done'.call.seen >= 0
           /\ done'.call.t - done'.call.seen >= CACHE_TTL) =>
            ~cache'[KeyOf(done'.call)].present]_vars

\* a call found its entry 3600 s old, deleted it and then failed to download:
\* the key is left without an entry
C23_Witness ==
    /\ Finished /\ done.outcome = "raised" /\ done.cause = "network"
    /\ done.call.t - done.call.seen = CACHE_TTL /\ done.call.seen >= 0
    /\ ~cache[KeyOf(done.call)].present

----------------------------------------------------------------------------
(* Overlapping calls of the service                                       *)
----------------------------------------------------------------------------

\* SpecOverlap follows two calls of extract_captions and clear_cache running
\* at the same time, as section 5 of the specification has requests handled
\* (the cache is a class attribute shared by every caller and no lock guards
\* it): the steps of the calls interleave line by line.
\* one video requested in one output format: every call has the same key
OneKey == [OneVideo EXCEPT !.formats = {"txt"}]

NextOverlap ==
    \/ Step(1, OneKey)
    \/ Step(2, OneKey)
    \/ clear_cache
    \/ Tick({CACHE_TTL})

SpecOverlap == Init /\ [][NextOverlap]_vars

Stages == {"metadata", "tracks", "download", "parse"}

\* C24: there is no request coalescing and the cache is written without
\* synchronization: a call that found no valid entry performs the full
\* extraction (metadata fetch, listing, download, parse) whatever the other
\* call stores meanwhile, every call that completes it writes the cache, and
\* the entry that remains is the one written last.
C24_NoCoalescing ==
    [][/\ \A r \in Reqs :
            (req[r].pc \in Stages /\ req'[r].pc = "idle" /\ done'.outcome = "returned") =>
                /\ done'.r = r /\ ~done'.hit
                /\ done'.call.ops = Stages
                /\ cache'[KeyOf(done'.call)] = Entry(done'.data, now)
       /\ \A r \in Reqs :
            (req[r].pc \in Stages /\ req'[r] # req[r] /\ req'[r].pc # "idle") =>
                req'[r].pc \in Stages \ {req[r].pc}]_vars

\* two calls for one key overlapped while nothing was cached: the second to
\* finish extracted in full and replaced the entry the first had written
C24_Witness ==
    /\ Finished /\ done.outcome = "returned" /\ ~done.hit
    /\ done.call.replaced /\ done.call.seen = -1
    /\ done.call.ops = Stages
    /\ cache[KeyOf(done.call)] = Entry(done.data, now)

\* C25: under every interleaving of extract_captions calls and clear_cache
\* calls the cache lookup and the eviction of a stale entry never fail: a
\* call returns a CaptionSet or raises an error of the extraction pipeline,
\* never the error of reading or deleting a key that is no longer cached.
C25_LookupNeverFails ==
    Finished =>
        \/ done.outcome = "returned"
        \/ /\ done.outcome = "raised"
           /\ done.cause # "cache" /\ done.error.type # "KeyError"

C27_OneCodePerUrl ==
    [][/\ \A c1, c2 \in DOMAIN url_map' :
            url_map'[c1].url = url_map'[c2].url => c1 = c2
       /\ \A long_url \in LongUrls, method \in Methods,
             custom_code \in CustomCodes \cup {<<>>} :
            (shorten_url(long_url, method, custom_code)
             /\ \E code \in DOMAIN url_map : url_map[code].url = long_url) =>
                /\ reply'.success /\ reply'.method = "existing"
                /\ reply'.short_code \in DOMAIN url_map
                /\ url_map[reply'.short_code].url = long_url
                /\ url_map' = url_map]_vars

\* both URLs are stored and a call for one of them, by the random method,
\* was answered with the code it already had
C27_Witness ==
    /\ reply.op = "shorten_url" /\ reply.success /\ reply.method = "existing"
    /\ ~reply.by_hash
    /\ Cardinality(DOMAIN url_map) = 2
    /\ Cardinality({url_map[c].url : c \in DOMAIN url_map}) = 2

\* the mappings that have been expanded k times or more
ExpandedAtLeast(k) == {c \in DOMAIN url_map : url_map[c].clicks >= k}

\* the clicks of the mappings in the map, summed level by level
RECURSIVE ClicksFrom(_)
ClicksFrom(k) ==
    IF ExpandedAtLeast(k) = {} THEN 0
    ELSE Cardinality(ExpandedAtLeast(k)) + ClicksFrom(k + 1)

\* C28: the clicks of a mapping count the successful expand_url calls on its
\* code since shorten_url created it: a new mapping has 0 clicks, a
\* successful expand_url adds one and returns the new count, no other call
\* changes the clicks of a mapping; get_stats.total_clicks is the sum of the
\* clicks of the mappings in the map; expand_url on an unknown code fails
\* and changes nothing.
C28_ClicksCountExpansions ==
    [][/\ \A c \in DOMAIN url_map' :
            IF c \notin DOMAIN url_map
            THEN url_map'[c].clicks = 0 /\ reply'.op = "shorten_url"
            ELSE IF reply'.op = "expand_url" /\ reply'.success /\ reply'.short_code = c
            THEN /\ url_map'[c].clicks = url_map[c].clicks + 1
                 /\ reply'.clicks = url_map'[c].clicks
            ELSE url_map'[c].clicks = url_map[c].clicks
       /\ reply'.op = "get_stats" => reply'.clicks = ClicksFrom(1)
       /\ \A short_code \in ShortCodes \ DOMAIN url_map :
            expand_url(short_code) =>
                /\ ~reply'.success
                /\ url_map' = url_map /\ storage' = storage]_vars

(***************************************************************************)
(* Voice cloning: VoiceCloningService.clone_voice_async on the thread pool *)
(***************************************************************************)

MaxCalls == 3

Finish(w, result) ==
    /\ workers' = [workers EXCEPT ![w] = IdleWorker]
    /\ answer' = result

Continue(w, pc) ==
    /\ workers' = [workers EXCEPT ![w].pc = pc]
    /\ answer' = NoAnswer

\* clone_voice_async: _clone_voice_sync is handed to the executor
clone_voice_async(speaker_found, text_empty) ==
    /\ submitted < MaxCalls
    /\ submitted' = submitted + 1
    /\ tasks' = Append(tasks, [IdleWorker EXCEPT !.speaker_found = speaker_found,
                                                 !.text_empty = text_empty])
    /\ answer' = NoAnswer
    /\ UNCHANGED <<tts, workers, loads, parserVars, serviceVars, shortenerVars>>

\* a free worker thread takes the oldest waiting call and enters
\* _clone_voice_sync
RunTask(w) ==
    /\ workers[w].pc = "idle"
    /\ tasks # <<>>
    /\ workers' = [workers EXCEPT ![w] = [Head(tasks) EXCEPT !.pc = "test"]]
    /\ tasks' = Tail(tasks)
    /\ answer' = NoAnswer
    /\ UNCHANGED <<tts, submitted, loads, parserVars, serviceVars, shortenerVars>>

\* _lazy_load_model, line 89: if self.tts is None
TestModel(w) ==
    /\ workers[w].pc = "test"
    /\ Continue(w, IF tts = 0 THEN "load" ELSE "validate")
    /\ UNCHANGED <<tts, tasks, submitted, loads, parserVars, serviceVars, shortenerVars>>

\* _lazy_load_model, lines 90-96: the model is constructed and assigned, or
\* the construction raises
LoadModel(w) ==
    /\ workers[w].pc = "load"
    /\ \/ /\ loads' = loads + 1
          /\ tts' = loads + 1
          /\ Continue(w, "validate")
       \/ /\ Finish(w, [success |-> FALSE, error |-> "Failed to clone voice"])
          /\ UNCHANGED <<tts, loads>>
    /\ UNCHANGED <<tasks, submitted, parserVars, serviceVars, shortenerVars>>

\* _clone_voice_sync, lines 280-335: the inputs are tested, the speech is
\* generated
Synthesize(w) ==
    /\ workers[w].pc = "validate"
    /\ IF ~workers[w].speaker_found
       THEN Finish(w, [success |-> FALSE, error |-> "Speaker audio file not found"])
       ELSE IF workers[w].text_empty
       THEN Finish(w, [success |-> FALSE, error |-> "Text cannot be empty"])
       ELSE \/ Finish(w, [success |-> TRUE, error |-> ""])
            \/ Finish(w, [success |-> FALSE, error |-> "Failed to clone voice"])
    /\ UNCHANGED <<tts, tasks, submitted, loads, parserVars, serviceVars, shortenerVars>>

\* the steps of the worker thread w
_clone_voice_sync(w) == RunTask(w) \/ TestModel(w) \/ LoadModel(w) \/ Synthesize(w)

InitVoice ==
    /\ ServiceIdle /\ ShortenerIdle /\ VoiceIdle
    /\ kind = "none" /\ raw = <<>> /\ given = NoGiven /\ parsed = NoResult

\* POST /voice-cloning/clone
CloneVoiceRequest ==
    \E speaker_found \in BOOLEAN, text_empty \in BOOLEAN :
        clone_voice_async(speaker_found, text_empty)

\* SpecVoice follows the calls of clone_voice_async through the two worker
\* threads of the executor, which run at the same time.
NextVoice == CloneVoiceRequest \/ _clone_voice_sync(1) \/ _clone_voice_sync(2)

SpecVoice == InitVoice /\ [][NextVoice]_vars

\* C29: the TTS model is loaded at most once per VoiceCloningService
\* instance: under any interleaving of the clone_voice_async calls running
\* on the two worker threads, _lazy_load_model constructs the model no more
\* than once.
C29_ModelLoadedOnce == loads <= 1

====
